---- MODULE Spec2Model ----
\* Model of the Linkwarden API client (src/src/graphs/linkwarden_api.py):
\* construction of a LinkwardenClient, the shared _request routine and the
\* twelve public operations that go through it.
\*
\* Strings that the code inspects (the base URL, the response body) are
\* sequences of tokens, so that startswith/endswith, slicing and JSON parsing
\* are computed and not assumed.
EXTENDS Integers, Sequences, FiniteSets, TLC

VARIABLES client, call, sent, response, result, linkwarden_tools

vars == <<client, call, sent, response, result, linkwarden_tools>>

\* ------------------------------------------------------------------ bounds
\* Largest number of trailing slashes on a base URL given to the constructor.
MaxSlashes == 2
\* Largest resource id a caller passes to a ..._by_id / update_... operation.
MaxId == 2

\* ---------------------------------------------------------- string helpers
\* str.startswith(prefix)
startswith(s, prefix) ==
    /\ Len(s) >= Len(prefix)
    /\ SubSeq(s, 1, Len(prefix)) = prefix

\* str.endswith(suffix)
endswith(s, suffix) ==
    /\ Len(s) >= Len(suffix)
    /\ SubSeq(s, Len(s) - Len(suffix) + 1, Len(s)) = suffix

RECURSIVE Slashes(_)
Slashes(n) == IF n = 0 THEN <<>> ELSE <<"/">> \o Slashes(n - 1)

HttpPrefix == <<"h", "t", "t", "p", ":", "/", "/">>
HttpsPrefix == <<"h", "t", "t", "p", "s", ":", "/", "/">>

\* The base URLs callers hand to the constructor: with and without a scheme,
\* with a wrong or wrongly-cased scheme, with and without a host, and with
\* 0..MaxSlashes trailing slashes.
Schemes ==
    { <<>>, HttpPrefix, HttpsPrefix,
      <<"f", "t", "p", ":", "/", "/">>,
      <<"H", "T", "T", "P", ":", "/", "/">>,
      <<"h", "t", "t", "p", ":", "/">> }
Hosts == { <<>>, <<"l", "w">> }
BaseUrls == { s \o h \o Slashes(n) : s \in Schemes, h \in Hosts, n \in 0..MaxSlashes }
ApiTokens == { "tok-A", "tok-B" }

\* ------------------------------------------------------------ JSON values
\* A parsed JSON value. Every value has the same three fields so that any two
\* values can be compared: t is the type, s the literal of a number or string,
\* keys/items the members of an object (aligned) or the elements of a list.
JNull == [t |-> "null", s |-> "", keys |-> <<>>, items |-> <<>>]
JNum(tok) == [t |-> "num", s |-> tok, keys |-> <<>>, items |-> <<>>]
JStr(tok) == [t |-> "str", s |-> tok, keys |-> <<>>, items |-> <<>>]
JList(items) == [t |-> "list", s |-> "", keys |-> <<>>, items |-> items]
JDict(keys, items) == [t |-> "dict", s |-> "", keys |-> keys, items |-> items]

NumToks == { "1", "999" }
StrToks == { "response", "id", "name", "error", "Reading List", "not found" }

IndexOf(seq, x) ==
    IF \E i \in 1..Len(seq) : seq[i] = x
    THEN CHOOSE i \in 1..Len(seq) : seq[i] = x
    ELSE 0

\* dict[key] = value while parsing: a repeated key keeps its place and takes
\* the later value.
DictPut(d, key, value) ==
    LET i == IndexOf(d.keys, key) IN
    IF i = 0
    THEN JDict(Append(d.keys, key), Append(d.items, value))
    ELSE JDict(d.keys, [d.items EXCEPT ![i] = value])

DictHas(v, key) == v.t = "dict" /\ IndexOf(v.keys, key) # 0
DictGet(v, key) == v.items[IndexOf(v.keys, key)]

ParseFail == [ok |-> FALSE, val |-> JNull, next |-> 0]
ParseOk(val, next) == [ok |-> TRUE, val |-> val, next |-> next]

RECURSIVE ParseValue(_, _), ParseElems(_, _, _), ParseMembers(_, _, _)

\* One JSON value starting at token i.
ParseValue(toks, i) ==
    IF i > Len(toks) THEN ParseFail
    ELSE LET c == toks[i] IN
         IF c \in NumToks THEN ParseOk(JNum(c), i + 1)
         ELSE IF c \in StrToks THEN ParseOk(JStr(c), i + 1)
         ELSE IF c = "null" THEN ParseOk(JNull, i + 1)
         ELSE IF c = "[" THEN
             IF i + 1 <= Len(toks) /\ toks[i + 1] = "]"
             THEN ParseOk(JList(<<>>), i + 2)
             ELSE ParseElems(toks, i + 1, <<>>)
         ELSE IF c = "{" THEN
             IF i + 1 <= Len(toks) /\ toks[i + 1] = "}"
             THEN ParseOk(JDict(<<>>, <<>>), i + 2)
             ELSE ParseMembers(toks, i + 1, JDict(<<>>, <<>>))
         ELSE ParseFail

\* value ("," value)* "]"
ParseElems(toks, i, acc) ==
    LET r == ParseValue(toks, i) IN
    IF ~r.ok \/ r.next > Len(toks) THEN ParseFail
    ELSE IF toks[r.next] = "," THEN ParseElems(toks, r.next + 1, Append(acc, r.val))
    ELSE IF toks[r.next] = "]" THEN ParseOk(JList(Append(acc, r.val)), r.next + 1)
    ELSE ParseFail

\* string ":" value ("," string ":" value)* "}"
ParseMembers(toks, i, acc) ==
    IF i + 1 > Len(toks) \/ toks[i] \notin StrToks \/ toks[i + 1] # ":" THEN ParseFail
    ELSE LET r == ParseValue(toks, i + 2) IN
         IF ~r.ok \/ r.next > Len(toks) THEN ParseFail
         ELSE IF toks[r.next] = ","
              THEN ParseMembers(toks, r.next + 1, DictPut(acc, toks[i], r.val))
         ELSE IF toks[r.next] = "}"
              THEN ParseOk(DictPut(acc, toks[i], r.val), r.next + 1)
         ELSE ParseFail

\* response.json(): the whole body must be one JSON value; otherwise
\* requests.exceptions.JSONDecodeError (ok = FALSE).
json_loads(body) ==
    LET r == ParseValue(body, 1) IN
    IF r.ok /\ r.next = Len(body) + 1
    THEN [ok |-> TRUE, val |-> r.val]
    ELSE [ok |-> FALSE, val |-> JNull]

\* ------------------------------------------------- what the server answers
\* Status codes a server can put on the wire, around every boundary the code
\* or the requests library tests (200, 300, 400, 401, 403, 404, 500, 600).
Statuses ==
    { 101, 199, 200, 201, 204, 299, 300, 304, 399,
      400, 401, 403, 404, 418, 499, 500, 503, 599, 600, 999 }

BodyWrapped ==
    << "{", "response", ":",
       "{", "id", ":", "1", ",", "name", ":", "Reading List", "}", "}" >>
BodyBare == << "{", "id", ":", "1", ",", "name", ":", "Reading List", "}" >>
BodyError == << "{", "error", ":", "not found", "}" >>
BodyList == << "[", "{", "id", ":", "1", "}", ",", "{", "id", ":", "999", "}", "]" >>
BodyWrappedList == << "{", "response", ":", "[", "]", "}" >>
BodyEmpty == << >>
BodyHtml == << "<html>", "</html>" >>
BodyBinary == << "%PDF", "1" >>
BodyTruncated == << "{", "response", ":" >>
BodyExtraData == << "1", "1" >>

Bodies ==
    { BodyWrapped, BodyBare, BodyError, BodyList, BodyWrappedList,
      BodyEmpty, BodyHtml, BodyBinary, BodyTruncated, BodyExtraData }

\* requests.exceptions raised by session.request when no response arrives.
TransportErrors ==
    { "ConnectionError", "SSLError", "ConnectTimeout", "ReadTimeout",
      "ChunkedEncodingError" }

\* Exception classes and their base class (requests.exceptions and
\* linkwarden_exceptions.py).
ExceptionBase(cls) ==
    CASE cls = "HTTPError" -> "RequestException"
      [] cls = "ConnectionError" -> "RequestException"
      [] cls = "SSLError" -> "ConnectionError"
      [] cls = "Timeout" -> "RequestException"
      [] cls = "ConnectTimeout" -> "Timeout"
      [] cls = "ReadTimeout" -> "Timeout"
      [] cls = "ChunkedEncodingError" -> "RequestException"
      [] cls = "RequestException" -> "Exception"
      [] cls = "LinkwardenAuthError" -> "LinkwardenAPIError"
      [] cls = "LinkwardenNotFoundError" -> "LinkwardenAPIError"
      [] cls = "LinkwardenServerError" -> "LinkwardenAPIError"
      [] cls = "LinkwardenAPIError" -> "Exception"
      [] cls = "ValueError" -> "Exception"
      [] OTHER -> "Exception"

RECURSIVE isinstance(_, _)
isinstance(cls, base) ==
    IF cls = base THEN TRUE
    ELSE IF cls = "Exception" THEN FALSE
    ELSE isinstance(ExceptionBase(cls), base)

\* What one HTTP exchange ends in: a response (status, body) or a transport
\* failure (exc).
HttpResponse(status, body) ==
    [kind |-> "response", status_code |-> status, content |-> body, exc |-> ""]
TransportFailure(exc) ==
    [kind |-> "transport", status_code |-> 0, content |-> <<>>, exc |-> exc]
NoResponse == [kind |-> "none", status_code |-> 0, content |-> <<>>, exc |-> ""]

Outcomes ==
    { HttpResponse(s, b) : s \in Statuses, b \in Bodies }
        \cup { TransportFailure(e) : e \in TransportErrors }

\* ----------------------------------------------------- results of a call
NoValue == [type |-> "none", json |-> JNull, raw |-> <<>>]
JsonValue(v) == [type |-> "json", json |-> v, raw |-> <<>>]
BytesValue(b) == [type |-> "bytes", json |-> JNull, raw |-> b]
StrValue(b) == [type |-> "str", json |-> JNull, raw |-> b]

NoMsg == [prefix |-> "", status_code |-> 0, text |-> <<>>]
Msg(prefix, status_code, text) ==
    [prefix |-> prefix, status_code |-> status_code, text |-> text]

NoResult == [kind |-> "none", exc |-> "", msg |-> NoMsg, cause |-> "", value |-> NoValue]
Return(value) ==
    [kind |-> "return", exc |-> "", msg |-> NoMsg, cause |-> "", value |-> value]
Raise(exc, msg, cause) ==
    [kind |-> "raise", exc |-> exc, msg |-> msg, cause |-> cause, value |-> NoValue]

\* ------------------------------------------------------ LinkwardenClient
NoClient == [exists |-> FALSE, base_url |-> <<>>, session |-> <<>>]

\* "Authorization": f"Bearer {api_token}", "Accept", "Content-type"
SessionHeaders(api_token) ==
    [Authorization |-> <<"Bearer ", api_token>>,
     Accept |-> "application/json",
     ContentType |-> "application/json"]

\* if not base_url or not base_url.startswith(('http://', 'https://'))
InvalidBaseUrl_PrefixHttp(base_url) ==
    base_url = <<>> \/ ~startswith(base_url, <<"h", "t", "t", "p">>)
InvalidBaseUrl(base_url) ==
    \/ base_url = <<>>
    \/ ~(startswith(base_url, HttpPrefix) \/ startswith(base_url, HttpsPrefix))

\* if base_url.endswith('/'): base_url = base_url[:-1]
RECURSIVE StripSlash_All(_)
StripSlash_All(base_url) ==
    IF endswith(base_url, <<"/">>)
    THEN StripSlash_All(SubSeq(base_url, 1, Len(base_url) - 1))
    ELSE base_url
StripSlash(base_url) ==
    IF endswith(base_url, <<"/">>)
    THEN SubSeq(base_url, 1, Len(base_url) - 1)
    ELSE base_url

\* LinkwardenClient.__init__: the object it leaves behind (self) and how the
\* call ends. A raise before self.session is assigned leaves no client.
__init__(base_url, api_token) ==
    IF InvalidBaseUrl(base_url)
    THEN [self |-> NoClient,
          sent |-> <<>>,
          result |-> Raise("ValueError",
                           Msg("A valid base_url (starting with http:// or https://) is required.",
                               0, <<>>),
                           "")]
    ELSE [self |-> [exists |-> TRUE,
                    base_url |-> StripSlash(base_url),
                    session |-> << [headers |-> SessionHeaders(api_token)] >>],
          sent |-> <<>>,
          result |-> Return(NoValue)]

\* ---------------------------------------------------------------- _request
\* Response.raise_for_status(): TRUE when it raises HTTPError.
raise_for_status_4xxOnly(status_code) ==
    400 <= status_code /\ status_code < 500
raise_for_status(status_code) ==
    \/ (400 <= status_code /\ status_code < 500)
    \/ (500 <= status_code /\ status_code < 600)

\* Response.ok: raise_for_status() did not raise.
ok(status_code) == ~raise_for_status(status_code)

NoKwargs == [json |-> <<>>, params |-> <<>>]
JsonKwargs(payload) == [json |-> <<payload>>, params |-> <<>>]
ParamsKwargs(name, value) == [json |-> <<>>, params |-> << <<name, value>> >>]

\* url = f"{self.base_url}/{endpoint}"
Url_NoSlash(base_url, endpoint) == base_url \o endpoint
Url(base_url, endpoint) == base_url \o <<"/">> \o endpoint

\* The request session.request puts on the wire.
HttpRequest(self, method, endpoint, kwargs) ==
    [method |-> method,
     url |-> Url(self.base_url, endpoint),
     headers |-> self.session[1].headers,
     json |-> kwargs.json,
     params |-> kwargs.params]

\* except requests.exceptions.HTTPError as e
except_HTTPError_No403(status_code, error_text) ==
    IF status_code = 401
    THEN Raise("LinkwardenAuthError",
               Msg("Authentication error", status_code, error_text), "HTTPError")
    ELSE IF status_code = 404
    THEN Raise("LinkwardenNotFoundError",
               Msg("Resource not found", status_code, error_text), "HTTPError")
    ELSE IF 500 <= status_code /\ status_code < 600
    THEN Raise("LinkwardenServerError",
               Msg("Server error", status_code, error_text), "HTTPError")
    ELSE Raise("LinkwardenAPIError",
               Msg("HTTP client error", status_code, error_text), "HTTPError")
except_HTTPError(status_code, error_text) ==
    IF status_code \in {401, 403}
    THEN Raise("LinkwardenAuthError",
               Msg("Authentication error", status_code, error_text), "HTTPError")
    ELSE IF status_code = 404
    THEN Raise("LinkwardenNotFoundError",
               Msg("Resource not found", status_code, error_text), "HTTPError")
    ELSE IF 500 <= status_code /\ status_code < 600
    THEN Raise("LinkwardenServerError",
               Msg("Server error", status_code, error_text), "HTTPError")
    ELSE Raise("LinkwardenAPIError",
               Msg("HTTP client error", status_code, error_text), "HTTPError")

\* except requests.exceptions.RequestException as e
except_RequestException_AsServerError(exc) ==
    Raise("LinkwardenServerError", Msg("A network request failed", 0, <<exc>>), exc)
except_RequestException(exc) ==
    Raise("LinkwardenAPIError", Msg("A network request failed", 0, <<exc>>), exc)

\* The try block of _request (session.request .. the inner try/except): what
\* it returns, or the exception that leaves it.
_request_try_ParseFirst(resp) ==
    IF resp.kind = "transport"
    THEN Raise(resp.exc, NoMsg, "")
    ELSE LET data == json_loads(resp.content) IN
         IF ~data.ok /\ ~ok(resp.status_code)
         THEN Raise("LinkwardenAPIError",
                    Msg("Request failed, and the response body was not valid JSON",
                        resp.status_code, resp.content),
                    "")
         ELSE IF raise_for_status(resp.status_code)
         THEN Raise("HTTPError", NoMsg, "")
         ELSE IF data.ok THEN Return(JsonValue(data.val))
         ELSE Return(BytesValue(resp.content))
_request_try_Unwrap(resp) ==
    IF resp.kind = "transport"
    THEN Raise(resp.exc, NoMsg, "")
    ELSE IF raise_for_status(resp.status_code)
    THEN Raise("HTTPError", NoMsg, "")
    ELSE LET data == json_loads(resp.content) IN
         IF data.ok
         THEN IF DictHas(data.val, "response")
              THEN Return(JsonValue(DictGet(data.val, "response")))
              ELSE Return(JsonValue(data.val))
         ELSE IF ok(resp.status_code)
         THEN Return(BytesValue(resp.content))
         ELSE Raise("LinkwardenAPIError",
                    Msg("Request failed, and the response body was not valid JSON",
                        resp.status_code, resp.content),
                    "")
_request_try_Text(resp) ==
    IF resp.kind = "transport"
    THEN Raise(resp.exc, NoMsg, "")
    ELSE IF raise_for_status(resp.status_code)
    THEN Raise("HTTPError", NoMsg, "")
    ELSE LET data == json_loads(resp.content) IN
         IF data.ok
         THEN Return(JsonValue(data.val))
         ELSE IF ok(resp.status_code)
         THEN Return(StrValue(resp.content))
         ELSE Raise("LinkwardenAPIError",
                    Msg("Request failed, and the response body was not valid JSON",
                        resp.status_code, resp.content),
                    "")
_request_try(resp) ==
    IF resp.kind = "transport"
    THEN Raise(resp.exc, NoMsg, "")
    ELSE IF raise_for_status(resp.status_code)
    THEN Raise("HTTPError", NoMsg, "")
    ELSE LET data == json_loads(resp.content) IN
         IF data.ok
         THEN Return(JsonValue(data.val))
         ELSE IF ok(resp.status_code)
         THEN Return(BytesValue(resp.content))
         ELSE Raise("LinkwardenAPIError",
                    Msg("Request failed, and the response body was not valid JSON",
                        resp.status_code, resp.content),
                    "")

\* _request issuing the request a second time after a 5xx answer.
_request_RetryOnServerError(self, method, endpoint, kwargs, resp) ==
    LET t == _request_try(resp)
        req == HttpRequest(self, method, endpoint, kwargs)
    IN
    [self |-> self,
     sent |-> IF resp.kind = "response" /\ 500 <= resp.status_code /\ resp.status_code < 600
              THEN << req, req >>
              ELSE << req >>,
     result |->
        IF t.kind = "raise" /\ isinstance(t.exc, "HTTPError")
        THEN except_HTTPError(resp.status_code, resp.content)
        ELSE IF t.kind = "raise" /\ isinstance(t.exc, "RequestException")
        THEN except_RequestException(t.exc)
        ELSE t]

\* _request setting Content-Type on the session's headers for a call that
\* carries no JSON body.
_request_SetsContentType(self, method, endpoint, kwargs, resp) ==
    LET t == _request_try(resp)
        me == IF kwargs.json = <<>>
              THEN [self EXCEPT !.session[1].headers.ContentType = "text/plain"]
              ELSE self
    IN
    [self |-> me,
     sent |-> << HttpRequest(me, method, endpoint, kwargs) >>,
     result |->
        IF t.kind = "raise" /\ isinstance(t.exc, "HTTPError")
        THEN except_HTTPError(resp.status_code, resp.content)
        ELSE IF t.kind = "raise" /\ isinstance(t.exc, "RequestException")
        THEN except_RequestException(t.exc)
        ELSE t]

\* LinkwardenClient._request: the request it issues, the client it leaves
\* behind and how the call ends, given what the exchange ends in (resp).
\* The except clauses are tried in order on the exception leaving the try
\* block; one that matches none of them propagates as it is.
_request(self, method, endpoint, kwargs, resp) ==
    LET t == _request_try(resp) IN
    [self |-> self,
     sent |-> << HttpRequest(self, method, endpoint, kwargs) >>,
     result |->
        IF t.kind = "raise" /\ isinstance(t.exc, "HTTPError")
        THEN except_HTTPError(resp.status_code, resp.content)
        ELSE IF t.kind = "raise" /\ isinstance(t.exc, "RequestException")
        THEN except_RequestException(t.exc)
        ELSE t]

\* ------------------------------------------------------ public operations
Ids == 1..MaxId
Queries == { "tag:work", "" }

CreateCollectionPayloads ==
    { JDict(<<"name">>, <<JStr("Reading List")>>), JDict(<<>>, <<>>) }
UpdateCollectionPayloads ==
    { JDict(<<"name">>, <<JStr("Reading List")>>), JDict(<<>>, <<>>) }
CreateLinkPayloads ==
    { JDict(<<"url", "name">>, <<JStr("http://lw"), JStr("Reading List")>>),
      JDict(<<"name">>, <<JStr("Reading List")>>) }
UpdateLinkPayloads ==
    { JDict(<<"id", "collection", "tags", "pinnedBy">>,
            <<JNum("1"), JDict(<<"id", "ownerId">>, <<JNum("1"), JNum("1")>>),
              JList(<<>>), JList(<<>>)>>),
      JDict(<<"name">>, <<JStr("Reading List")>>) }
CreateTagPayloads ==
    { JDict(<<"name">>, <<JStr("work")>>), JDict(<<>>, <<>>) }

get_collections(self, resp) ==
    _request(self, "GET", <<"api/v1/collections">>, NoKwargs, resp)

create_collection(self, payload, resp) ==
    _request(self, "POST", <<"api/v1/collections">>, JsonKwargs(payload), resp)

\* The disabled delete_collection (commented out in this build).
delete_collection(self, collection_id, resp) ==
    _request(self, "DELETE", <<"api/v1/collections/", ToString(collection_id)>>,
             NoKwargs, resp)
get_collection_by_id(self, collection_id, resp) ==
    _request(self, "GET", <<"api/v1/collections/", ToString(collection_id)>>, NoKwargs, resp)

update_collection(self, collection_id, payload, resp) ==
    _request(self, "PUT", <<"api/v1/collections/", ToString(collection_id)>>,
             JsonKwargs(payload), resp)

get_links(self, resp) ==
    _request(self, "GET", <<"api/v1/links">>, NoKwargs, resp)

create_link(self, payload, resp) ==
    _request(self, "POST", <<"api/v1/links">>, JsonKwargs(payload), resp)

get_link_by_id(self, link_id, resp) ==
    _request(self, "GET", <<"api/v1/links/", ToString(link_id)>>, NoKwargs, resp)

update_link(self, link_id, payload, resp) ==
    _request(self, "PUT", <<"api/v1/links/", ToString(link_id)>>, JsonKwargs(payload), resp)

get_tags(self, resp) ==
    _request(self, "GET", <<"api/v1/tags">>, NoKwargs, resp)

create_tag(self, payload, resp) ==
    _request(self, "POST", <<"api/v1/tags">>, JsonKwargs(payload), resp)

get_current_user(self, resp) ==
    _request(self, "GET", <<"api/v1/users/me">>, NoKwargs, resp)

search_query(self, query, resp) ==
    _request(self, "GET", <<"api/v1/search">>,
             ParamsKwargs("searchQueryString", query), resp)

\* -------------------------------------------------------------- agent.py
\* An attribute name: its leading underscores one by one, then the rest.
Dunder(n) == <<"_", "_", n, "_", "_">>
Attr(name, is_callable, on_instance) ==
    [name |-> name, callable |-> is_callable, instance |-> on_instance]

\* dir(client), in the sorted order dir() gives: the attributes every object
\* has, the methods of LinkwardenClient and, on a constructed client, the
\* attributes __init__ assigns. callable is callable(getattr(client, name)).
dir(self) ==
    SelectSeq(
        << Attr(Dunder("class"), TRUE, FALSE),
           Attr(Dunder("dict"), FALSE, FALSE),
           Attr(Dunder("doc"), FALSE, FALSE),
           Attr(Dunder("eq"), TRUE, FALSE),
           Attr(Dunder("init"), TRUE, FALSE),
           Attr(Dunder("module"), FALSE, FALSE),
           Attr(Dunder("repr"), TRUE, FALSE),
           Attr(Dunder("weakref"), FALSE, FALSE),
           Attr(<<"_", "request">>, TRUE, FALSE),
           Attr(<<"base_url">>, FALSE, TRUE),
           Attr(<<"create_collection">>, TRUE, FALSE),
           Attr(<<"create_link">>, TRUE, FALSE),
           Attr(<<"create_tag">>, TRUE, FALSE),
           Attr(<<"get_collection_by_id">>, TRUE, FALSE),
           Attr(<<"get_collections">>, TRUE, FALSE),
           Attr(<<"get_current_user">>, TRUE, FALSE),
           Attr(<<"get_link_by_id">>, TRUE, FALSE),
           Attr(<<"get_links">>, TRUE, FALSE),
           Attr(<<"get_tags">>, TRUE, FALSE),
           Attr(<<"search_query">>, TRUE, FALSE),
           Attr(<<"session">>, FALSE, TRUE),
           Attr(<<"update_collection">>, TRUE, FALSE),
           Attr(<<"update_link">>, TRUE, FALSE) >>,
        LAMBDA a : a.instance => self.exists)

RECURSIVE NamesOf(_)
NamesOf(attrs) ==
    IF attrs = <<>> THEN <<>> ELSE <<Head(attrs).name>> \o NamesOf(Tail(attrs))

\* unpack_tool: the callables of dir(client) whose name does not start with
\* "__", _request left out by name; each tool stands by its method name.
unpack_tool_NoSkip(self) ==
    NamesOf(SelectSeq(dir(self),
                      LAMBDA a : a.callable /\ ~startswith(a.name, <<"_", "_">>)))
unpack_tool(self) ==
    NamesOf(SelectSeq(dir(self),
                      LAMBDA a : /\ a.callable
                                 /\ ~startswith(a.name, <<"_", "_">>)
                                 /\ a.name # <<"_", "request">>))

NoTools == [made |-> FALSE, tools |-> <<>>]

\* ------------------------------------------------------------ the system
Init ==
    /\ client = NoClient
    /\ call = [op |-> "none", args |-> <<>>]
    /\ sent = <<>>
    /\ response = NoResponse
    /\ result = NoResult
    /\ linkwarden_tools = NoTools

\* The state after a call op(args) that met resp and ended as r describes.
Finish(op, args, resp, r) ==
    /\ client' = r.self
    /\ call' = [op |-> op, args |-> args]
    /\ sent' = r.sent
    /\ response' = resp
    /\ result' = r.result
    /\ UNCHANGED linkwarden_tools

\* No call is in progress or waiting to be taken by its caller: every call is
\* a blocking, synchronous one.
Idle == call.op = "none"

\* The caller takes what the call returned or raised and goes on; it may
\* then call again.
CallerContinues ==
    /\ ~Idle
    /\ call' = [op |-> "none", args |-> <<>>]
    /\ sent' = <<>>
    /\ response' = NoResponse
    /\ result' = NoResult
    /\ UNCHANGED <<client, linkwarden_tools>>

\* client = LinkwardenClient(base_url, api_token)
Construct ==
    /\ Idle
    /\ ~client.exists
    /\ \E base_url \in BaseUrls, api_token \in ApiTokens :
          Finish("__init__", <<base_url, api_token>>, NoResponse,
                 __init__(base_url, api_token))

GetCollections ==
    /\ Idle
    /\ client.exists
    /\ \E resp \in Outcomes :
          Finish("get_collections", <<>>, resp, get_collections(client, resp))

CreateCollection ==
    /\ Idle
    /\ client.exists
    /\ \E payload \in CreateCollectionPayloads, resp \in Outcomes :
          Finish("create_collection", <<payload>>, resp,
                 create_collection(client, payload, resp))

GetCollectionById ==
    /\ Idle
    /\ client.exists
    /\ \E id \in Ids, resp \in Outcomes :
          Finish("get_collection_by_id", <<id>>, resp,
                 get_collection_by_id(client, id, resp))

UpdateCollection ==
    /\ Idle
    /\ client.exists
    /\ \E id \in Ids, payload \in UpdateCollectionPayloads, resp \in Outcomes :
          Finish("update_collection", <<id, payload>>, resp,
                 update_collection(client, id, payload, resp))

GetLinks ==
    /\ Idle
    /\ client.exists
    /\ \E resp \in Outcomes :
          Finish("get_links", <<>>, resp, get_links(client, resp))

CreateLink ==
    /\ Idle
    /\ client.exists
    /\ \E payload \in CreateLinkPayloads, resp \in Outcomes :
          Finish("create_link", <<payload>>, resp, create_link(client, payload, resp))

GetLinkById ==
    /\ Idle
    /\ client.exists
    /\ \E id \in Ids, resp \in Outcomes :
          Finish("get_link_by_id", <<id>>, resp, get_link_by_id(client, id, resp))

UpdateLink ==
    /\ Idle
    /\ client.exists
    /\ \E id \in Ids, payload \in UpdateLinkPayloads, resp \in Outcomes :
          Finish("update_link", <<id, payload>>, resp,
                 update_link(client, id, payload, resp))

GetTags ==
    /\ Idle
    /\ client.exists
    /\ \E resp \in Outcomes :
          Finish("get_tags", <<>>, resp, get_tags(client, resp))

CreateTag ==
    /\ Idle
    /\ client.exists
    /\ \E payload \in CreateTagPayloads, resp \in Outcomes :
          Finish("create_tag", <<payload>>, resp, create_tag(client, payload, resp))

GetCurrentUser ==
    /\ Idle
    /\ client.exists
    /\ \E resp \in Outcomes :
          Finish("get_current_user", <<>>, resp, get_current_user(client, resp))

SearchQuery ==
    /\ Idle
    /\ client.exists
    /\ \E query \in Queries, resp \in Outcomes :
          Finish("search_query", <<query>>, resp, search_query(client, query, resp))

\* linkwarden_tools = unpack_tool(client=client)
UnpackTool ==
    /\ Idle
    /\ client.exists
    /\ ~linkwarden_tools.made
    /\ linkwarden_tools' = [made |-> TRUE, tools |-> unpack_tool(client)]
    /\ UNCHANGED <<client, call, sent, response, result>>

Next ==
    \/ Construct
    \/ GetCollections
    \/ CreateCollection
    \/ GetCollectionById
    \/ UpdateCollection
    \/ GetLinks
    \/ CreateLink
    \/ GetLinkById
    \/ UpdateLink
    \/ GetTags
    \/ CreateTag
    \/ GetCurrentUser
    \/ SearchQuery
    \/ CallerContinues
    \/ UnpackTool

Spec == Init /\ [][Next]_vars

\* ================================================================ claims
\* A public operation has run and its HTTP exchange ended in a response.
Answered == ~Idle /\ call.op # "__init__" /\ response.kind = "response"
\* A public operation has run and its HTTP exchange failed without a response.
Unanswered == ~Idle /\ call.op # "__init__" /\ response.kind = "transport"

Taxonomy ==
    { "LinkwardenAPIError", "LinkwardenAuthError", "LinkwardenNotFoundError",
      "LinkwardenServerError" }

\* The error kind the taxonomy gives a failure status.
KindOfStatus(st) ==
    IF st \in {401, 403} THEN "LinkwardenAuthError"
    ELSE IF st = 404 THEN "LinkwardenNotFoundError"
    ELSE IF 500 <= st /\ st < 600 THEN "LinkwardenServerError"
    ELSE "LinkwardenAPIError"

\* C1 as stated: every status >= 400, statuses of 600 and above included, ends
\* in the error kind of the taxonomy (401/403 Auth, 404 NotFound, 5xx Server,
\* anything else the base APIError).
C1_Original ==
    (Answered /\ response.status_code >= 400)
        => (result.kind = "raise" /\ result.exc = KindOfStatus(response.status_code))

\* C1 amended: a status in [400,600) ends in AuthError for 401/403,
\* NotFoundError for 404, ServerError for [500,600) and the base APIError for
\* every other 4xx; a status of 600 or above raises nothing and the call
\* returns.
C1_StatusClassification ==
    Answered =>
        /\ (400 <= response.status_code /\ response.status_code < 600)
              => (result.kind = "raise"
                  /\ result.exc = KindOfStatus(response.status_code))
        /\ response.status_code >= 600 => result.kind = "return"

C1_Witness ==
    /\ Answered
    /\ response.status_code = 418
    /\ result.kind = "raise"
    /\ result.exc = "LinkwardenAPIError"

\* C2 as stated: a call returns a value only on a 2xx status; every status
\* outside [200,300) ends in an error of the taxonomy.
C2_Original ==
    (Answered /\ ~(200 <= response.status_code /\ response.status_code < 300))
        => (result.kind = "raise" /\ result.exc \in Taxonomy)

\* C2 amended: a call raises an error of the taxonomy, and returns no value,
\* exactly when the status is in [400,600); on every other status (1xx, 2xx,
\* 3xx, 600 and above) it returns.
C2_RaisesExactlyOn4xx5xx ==
    Answered =>
        IF 400 <= response.status_code /\ response.status_code < 600
        THEN result.kind = "raise" /\ result.exc \in Taxonomy /\ result.value = NoValue
        ELSE result.kind = "return"

C2_Witness ==
    /\ Answered
    /\ response.status_code = 503
    /\ response.content = BodyWrapped
    /\ result.kind = "raise"
    /\ result.value = NoValue

NotJsonNote == "Request failed, and the response body was not valid JSON"

\* C3 as stated: a response with status >= 400 (401, 403, 404, 5xx included)
\* and a body that is not valid JSON ends in the base APIError.
C3_Original ==
    (Answered /\ response.status_code >= 400 /\ ~json_loads(response.content).ok)
        => (result.kind = "raise" /\ result.exc = "LinkwardenAPIError")

\* C3 amended: a response with status in [400,600) and a body that is not
\* valid JSON ends in the error kind its status selects (the base APIError
\* only for a 4xx other than 401, 403, 404), with the status and the raw body
\* in the message and without the not-valid-JSON note.
C3_NonJsonFailureByStatus ==
    (/\ Answered
     /\ 400 <= response.status_code /\ response.status_code < 600
     /\ ~json_loads(response.content).ok)
        => /\ result.kind = "raise"
           /\ result.exc = KindOfStatus(response.status_code)
           /\ result.msg.prefix # NotJsonNote
           /\ result.msg.status_code = response.status_code
           /\ result.msg.text = response.content

C3_Witness ==
    /\ Answered
    /\ response.status_code = 401
    /\ response.content = BodyHtml
    /\ result.exc = "LinkwardenAuthError"

\* C4: on a 2xx response whose body is {"response": R} the operation returns
\* the resource R, not the wrapper object.
C4_ReturnsResource ==
    (/\ Answered
     /\ 200 <= response.status_code /\ response.status_code < 300
     /\ json_loads(response.content).ok
     /\ json_loads(response.content).val.t = "dict"
     /\ json_loads(response.content).val.keys = <<"response">>)
        => /\ result.kind = "return"
           /\ result.value = JsonValue(DictGet(json_loads(response.content).val, "response"))

ReadingList ==
    JDict(<<"id", "name">>, <<JNum("1"), JStr("Reading List")>>)

C6_ReturnsRawBytes ==
    (/\ Answered
     /\ 200 <= response.status_code /\ response.status_code < 300
     /\ ~json_loads(response.content).ok)
        => result = Return(BytesValue(response.content))

C6_Witness ==
    /\ Answered
    /\ response.status_code = 200
    /\ response.content = BodyBinary
    /\ result.kind = "return"
    /\ result.value.type = "bytes"

\* C7: when the exchange fails at transport level, every public operation
\* raises the base APIError with the transport exception as its cause and
\* returns no value.
C7_TransportFailure ==
    Unanswered =>
        /\ result.kind = "raise"
        /\ result.exc = "LinkwardenAPIError"
        /\ result.cause = response.exc
        /\ result.cause \in TransportErrors
        /\ result.value = NoValue

C7_Witness ==
    /\ Unanswered
    /\ call.op = "update_link"
    /\ response.exc = "ConnectTimeout"
    /\ result.exc = "LinkwardenAPIError"
    /\ result.cause = "ConnectTimeout"

\* C8: constructing a client with a base URL that is empty or starts with
\* neither http:// nor https:// raises the validation error whatever the
\* token, creates no session, issues no request and leaves no client.
C8_InvalidBaseUrlRejected ==
    /\ (/\ call.op = "__init__"
        /\ \/ call.args[1] = <<>>
           \/ (~startswith(call.args[1], HttpPrefix)
               /\ ~startswith(call.args[1], HttpsPrefix)))
          => /\ result.kind = "raise"
             /\ result.exc = "ValueError"
             /\ ~client.exists
             /\ client.session = <<>>
             /\ sent = <<>>
    /\ ~client.exists => sent = <<>>

C8_Witness ==
    /\ call.op = "__init__"
    /\ call.args = << <<"h", "t", "t", "p", ":", "/", "l", "w">>, "tok-B" >>
    /\ result.exc = "ValueError"
    /\ ~client.exists

\* C9: a valid base URL that ends with a slash is kept without its last
\* slash, and only that one; one that does not end with a slash is kept
\* unchanged.
C9_OneTrailingSlashRemoved ==
    (call.op = "__init__" /\ result.kind = "return")
        => LET given == call.args[1] IN
           /\ client.exists
           /\ given[Len(given)] = "/"
                 => /\ Len(client.base_url) = Len(given) - 1
                    /\ client.base_url \o <<"/">> = given
           /\ given[Len(given)] # "/" => client.base_url = given

C9_Witness ==
    /\ call.op = "__init__"
    /\ call.args[1] = HttpsPrefix \o <<"l", "w", "/", "/">>
    /\ client.exists
    /\ client.base_url = HttpsPrefix \o <<"l", "w", "/">>

\* The operation table: method and endpoint of each public operation.
TableMethod(op) ==
    CASE op \in {"create_collection", "create_link", "create_tag"} -> "POST"
      [] op \in {"update_collection", "update_link"} -> "PUT"
      [] OTHER -> "GET"

TableEndpoint(op, args) ==
    CASE op = "get_collections" -> <<"api/v1/collections">>
      [] op = "create_collection" -> <<"api/v1/collections">>
      [] op = "get_collection_by_id" -> <<"api/v1/collections/", ToString(args[1])>>
      [] op = "update_collection" -> <<"api/v1/collections/", ToString(args[1])>>
      [] op = "get_links" -> <<"api/v1/links">>
      [] op = "create_link" -> <<"api/v1/links">>
      [] op = "get_link_by_id" -> <<"api/v1/links/", ToString(args[1])>>
      [] op = "update_link" -> <<"api/v1/links/", ToString(args[1])>>
      [] op = "get_tags" -> <<"api/v1/tags">>
      [] op = "create_tag" -> <<"api/v1/tags">>
      [] op = "get_current_user" -> <<"api/v1/users/me">>
      [] op = "search_query" -> <<"api/v1/search">>

\* C10: every public operation issues its request with the method and the
\* endpoint of the operation table, the URL being base URL + "/" + endpoint
\* with the caller's id in it; search_query(q) sends the one query parameter
\* searchQueryString = q and no other operation sends query parameters.
C10_MethodAndEndpoint ==
    (~Idle /\ call.op # "__init__")
        => /\ Len(sent) = 1
           /\ sent[1].method = TableMethod(call.op)
           /\ sent[1].url = client.base_url \o <<"/">> \o TableEndpoint(call.op, call.args)
           /\ sent[1].params =
                 IF call.op = "search_query"
                 THEN << <<"searchQueryString", call.args[1]>> >>
                 ELSE <<>>

C10_Witness ==
    /\ call.op = "search_query"
    /\ call.args = <<"tag:work">>
    /\ client.base_url = HttpsPrefix \o <<"l", "w">>
    /\ sent[1].method = "GET"
    /\ sent[1].url = HttpsPrefix \o <<"l", "w", "/", "api/v1/search">>
    /\ sent[1].params = << <<"searchQueryString", "tag:work">> >>

\* The fields each payload type declares as required (linkwarden_types.py).
RequiredFields(op) ==
    CASE op = "create_collection" -> {"name"}
      [] op = "create_link" -> {"url"}
      [] op = "update_link" -> {"id", "collection", "tags", "pinnedBy"}
      [] op = "create_tag" -> {"name"}
      [] OTHER -> {}

\* The payload argument of a create or update call.
PayloadOf(c) ==
    IF c.op \in {"update_collection", "update_link"} THEN c.args[2] ELSE c.args[1]

PayloadOps ==
    { "create_collection", "update_collection", "create_link", "update_link",
      "create_tag" }

LacksRequiredField(c) ==
    /\ c.op \in PayloadOps
    /\ \E f \in RequiredFields(c.op) : ~DictHas(PayloadOf(c), f)

\* C11: a create or update operation called with a payload that lacks one of
\* its required fields is rejected by the client: it raises and no HTTP
\* request is issued.
C11_RequiredFieldsChecked ==
    (~Idle /\ LacksRequiredField(call))
        => (sent = <<>> /\ result.kind = "raise")

\* C12: no call ever issues a DELETE request, nor a request to a token
\* (api/v1/tokens) or archive (api/v1/archives) endpoint.
InactiveEndpoints ==
    { "api/v1/tokens", "api/v1/tokens/", "api/v1/archives", "api/v1/archives/" }

C12_NoDeleteTokenArchive ==
    \A i \in 1..Len(sent) :
        /\ sent[i].method # "DELETE"
        /\ sent[i].method \in {"GET", "POST", "PUT"}
        /\ \A k \in 1..Len(sent[i].url) : sent[i].url[k] \notin InactiveEndpoints

C12_Witness ==
    /\ call.op = "get_collection_by_id"
    /\ Len(sent) = 1
    /\ sent[1].method = "GET"
    /\ sent[1].url = client.base_url \o <<"/", "api/v1/collections/", "2">>

\* C13: each invocation of a public operation issues exactly one HTTP
\* request and then returns or raises; a failed exchange (4xx, 5xx, transport
\* failure) always ends in an error of the taxonomy raised to the caller.
C13_OneRequestNoSwallow ==
    (~Idle /\ call.op # "__init__")
        => /\ Len(sent) = 1
           /\ result.kind \in {"return", "raise"}
           /\ (\/ response.kind = "transport"
               \/ (/\ response.kind = "response"
                   /\ 400 <= response.status_code
                   /\ response.status_code < 600))
                 => (/\ result.kind = "raise"
                     /\ result.exc \in Taxonomy
                     /\ result.value = NoValue)
           /\ (/\ response.kind = "response"
               /\ 200 <= response.status_code
               /\ response.status_code < 300)
                 => result.kind = "return"

C13_Witness ==
    /\ call.op = "create_link"
    /\ response.kind = "response"
    /\ response.status_code = 503
    /\ Len(sent) = 1
    /\ result.kind = "raise"
    /\ result.exc = "LinkwardenServerError"

\* C14: no public operation changes the client (its base URL, its session
\* headers); the headers are those set at construction from the given token,
\* with JSON Accept and Content-Type; every request carries the headers of
\* the client and is addressed under its base URL; and how a call ends
\* depends only on what its own exchange ended in.
OutcomeOf(resp) ==
    IF resp.kind = "transport" THEN "raise"
    ELSE IF 400 <= resp.status_code /\ resp.status_code < 600 THEN "raise"
    ELSE "return"

PublicOperations ==
    { <<"get_collections">>, <<"create_collection">>, <<"get_collection_by_id">>,
      <<"update_collection">>, <<"get_links">>, <<"create_link">>,
      <<"get_link_by_id">>, <<"update_link">>, <<"get_tags">>, <<"create_tag">>,
      <<"get_current_user">>, <<"search_query">> }

\* C15: the tool list unpack_tool returns holds exactly the twelve public
\* operations, each once: no name starting with an underscore (so not
\* _request), no attribute that is not callable, and every public operation.
C15_ToolsArePublicOperations ==
    linkwarden_tools.made =>
        LET tools == linkwarden_tools.tools IN
        /\ { tools[i] : i \in 1..Len(tools) } = PublicOperations
        /\ Len(tools) = Cardinality(PublicOperations)
        /\ Cardinality(PublicOperations) = 12
        /\ \A i \in 1..Len(tools) :
              /\ ~startswith(tools[i], <<"_">>)
              /\ tools[i] # <<"_", "request">>

C15_Witness ==
    /\ linkwarden_tools.made
    /\ Len(linkwarden_tools.tools) = 12
    /\ linkwarden_tools.tools[1] = <<"create_collection">>
    /\ client.exists

====
